---- MODULE Spec2Model ----
(***************************************************************************)
(* Model of manage_helm_charts.py: the HelmChartManager facade and the     *)
(* command dispatch of main().  One run of the model is one process: either *)
(* the CLI (entry = "main") or a library caller invoking add_helm_repo     *)
(* directly (entry = "add_helm_repo"; main has no sub-command for it).     *)
(* The HTTP service and the helm binary are the environment: each request  *)
(* and each invocation gets a nondeterministically chosen outcome.         *)
(***************************************************************************)
EXTENDS Integers, Sequences, FiniteSets, TLC

\* ---------------------------------------------------------------- bounds
MaxNameLen == 3       \* longest chart reference given to `info`, in characters
MaxPackages == 6      \* longest `packages` list a search response carries

\* ------------------------------------------------------------- constants
TOP_RESULTS == 5                      \* charts[:5]
ARTIFACT_HUB_API == "https://artifacthub.io/api/v1"

None == "<None>"                      \* Python None
NotGiven == "<not given>"             \* an option absent from the command line
SEP == "/"

Chars == {"r", "c", SEP}
Names == UNION {[1..n -> Chars] : n \in 0..MaxNameLen}
Keywords == {"redis", "db"}
ChartNames == {"bitnami/redis"}
ReleaseNames == {"r1", "r2"}
OptNamespaces == {NotGiven, "", "ns1"}
OptVersions == {NotGiven, "", "1.0"}
RepoNames == {"bitnami"}
RepoUrls == {"https://charts.example"}

NoErr == [type |-> "None"]            \* no exception
NoRet == [type |-> "None"]


\* --------------------------------------------------------- pure helpers
\* str.split(sep, 1): at most one split, the remainder kept whole.
splitOnce(s, sep) ==
    IF \E i \in DOMAIN s : s[i] = sep
    THEN LET i == CHOOSE i \in DOMAIN s : s[i] = sep /\ \A j \in 1..(i-1) : s[j] # sep
         IN <<SubSeq(s, 1, i - 1), SubSeq(s, i + 1, Len(s))>>
    ELSE <<s>>

\* str.split(sep): the list of the maximal sep-free pieces, empty ones kept.
RECURSIVE split(_, _)
split(s, sep) ==
    IF s = <<>> THEN << <<>> >>
    ELSE LET rest == split(Tail(s), sep) IN
         IF Head(s) = sep THEN << <<>> >> \o rest
         ELSE << <<Head(s)>> \o Head(rest) >> \o Tail(rest)

\* the slice left out: the whole list
TakeAll(s, n) == s

\* seq[:n]
Take(s, n) == SubSeq(s, 1, IF Len(s) < n THEN Len(s) ELSE n)

\* ------------------------------------------------------- command line
\* What the user typed: the sub-command and its arguments.
NoArgs == [command |-> None, keyword |-> None, ref |-> <<>>, name |-> None,
           release_name |-> NotGiven, namespace |-> NotGiven,
           version |-> NotGiven, url |-> None]

Argvs ==
    {NoArgs}
    \cup {[NoArgs EXCEPT !.command = "search", !.keyword = k] : k \in Keywords}
    \cup {[NoArgs EXCEPT !.command = "info", !.ref = r] : r \in Names}
    \cup {[NoArgs EXCEPT !.command = "install", !.name = c, !.release_name = rn,
                         !.namespace = ns, !.version = v]
          : c \in ChartNames, rn \in {NotGiven, "r1"},
            ns \in OptNamespaces, v \in OptVersions}
    \cup {[NoArgs EXCEPT !.command = "list-releases", !.namespace = ns]
          : ns \in OptNamespaces}
    \cup {[NoArgs EXCEPT !.command = "uninstall", !.release_name = rn,
                         !.namespace = ns]
          : rn \in ReleaseNames, ns \in OptNamespaces}

\* Arguments of a direct add_helm_repo(name, url) call.
RepoCalls ==
    {[NoArgs EXCEPT !.command = "add_helm_repo", !.name = n, !.url = u]
     : n \in RepoNames, u \in RepoUrls}

\* add_argument(..., default=d): the value argparse stores for an option.
OptDefault(given, d) == IF given = NotGiven THEN d ELSE given

\* parser.parse_args(): the Namespace, or "usage" when a required argument
\* is missing (argparse then exits with status 2).  The sub-command itself
\* is not required: without one, command is None.
parse_args(a) ==
    IF a.command = "install" /\ a.release_name = NotGiven THEN [command |-> "usage"]
    ELSE [command |-> a.command,
          keyword |-> a.keyword,
          ref |-> a.ref,
          name |-> a.name,
          release_name |-> a.release_name,
          namespace |-> IF a.command \in {"install", "uninstall"}
                        THEN OptDefault(a.namespace, "default")
                        ELSE OptDefault(a.namespace, None),
          version |-> OptDefault(a.version, None),
          url |-> None]

\* ----------------------------------------------------------- exceptions
NoMsg == [text |-> "", cmd |-> <<>>, how |-> "", status |-> 0]
NoCtx == [type |-> "None"]

\* An exception object: its class, str(e), and the exception it was raised
\* from inside an except block (__context__).
Exc(type, text) ==
    [type |-> type, msg |-> [NoMsg EXCEPT !.text = text], context |-> NoCtx]

KeyError(key) == Exc("KeyError", key)

\* ---------------------------------------------------------- environment
\* Outcomes of one helm invocation: the binary cannot be started, or it
\* runs and ends with a return code (negative: killed by that signal),
\* having written stdout and stderr.
ReturnCodes == {0, 1, -9}
Outcomes ==
    {[launched |-> FALSE, returncode |-> 0, stdout |-> "", stderr |-> ""]}
    \cup {[launched |-> TRUE, returncode |-> rc, stdout |-> so, stderr |-> se]
          : rc \in ReturnCodes, so \in {"", "NAME r1"}, se \in {"", "Error: x"}}

\* subprocess.CalledProcessError(returncode, cmd, output, stderr); output
\* and stderr are None unless the invocation captured them.
CalledProcessError(cmd, o, capture) ==
    [type |-> "CalledProcessError", cmd |-> cmd, returncode |-> o.returncode,
     output |-> IF capture THEN o.stdout ELSE None,
     stderr |-> IF capture THEN o.stderr ELSE None]

\* CalledProcessError.__str__
StrCalledProcessError(e) ==
    IF e.returncode < 0
    THEN [text |-> "Command", cmd |-> e.cmd, how |-> "died with signal",
          status |-> -e.returncode]
    ELSE [text |-> "Command", cmd |-> e.cmd,
          how |-> "returned non-zero exit status", status |-> e.returncode]

\* subprocess.run without check=True: a non-zero return code raises nothing.
runUnchecked(cmd, o, capture) ==
    [exc |-> IF ~o.launched THEN Exc("FileNotFoundError", "helm") ELSE NoErr,
     stdout |-> IF capture THEN o.stdout ELSE None]

\* subprocess.run(cmd, check=True, capture_output=capture) under outcome o:
\* the exception it raises (NoErr when none) and the stdout it returns.
run(cmd, o, capture) ==
    [exc |-> IF ~o.launched THEN Exc("FileNotFoundError", "helm")
             ELSE IF o.returncode # 0 THEN CalledProcessError(cmd, o, capture)
             ELSE NoErr,
     stdout |-> IF capture THEN o.stdout ELSE None]

\* raise Exception(prefix): the text of the original error left out.
ReraiseBare(prefix, e) ==
    IF e.type = "CalledProcessError"
    THEN [type |-> "Exception", msg |-> [NoMsg EXCEPT !.text = prefix],
          context |-> e]
    ELSE e

\* except subprocess.CalledProcessError as e: raise Exception(f"{prefix}{str(e)}")
\* Any other exception passes through the handler unchanged.
Reraise(prefix, e) ==
    IF e.type = "CalledProcessError"
    THEN [type |-> "Exception",
          msg |-> [StrCalledProcessError(e) EXCEPT !.text = prefix],
          context |-> e]
    ELSE e

\* JSON objects are modelled by the key a reader will find missing.
Missing == {"none", "name", "repository", "description", "version"}
ChartDicts == [missing : Missing]
PackageLists == UNION {[1..n -> ChartDicts] : n \in 0..MaxPackages}

\* Responses to the search GET.
SearchResponses ==
    {[kind |-> k, packages |-> <<>>]
       : k \in {"ConnectionError", "HTTPError", "JSONDecodeError", "no packages key"}}
    \cup {[kind |-> "ok", packages |-> ps] : ps \in PackageLists}

\* Responses to the details GET.
DetailResponses ==
    {[kind |-> k, json |-> [missing |-> "none"]]
       : k \in {"ConnectionError", "HTTPError", "JSONDecodeError"}}
    \cup {[kind |-> "ok", json |-> d] : d \in ChartDicts}

\* session.get(...); raise_for_status(); json(): the exception raised, if any.
ResponseError(resp) ==
    IF resp.kind \in {"ConnectionError", "HTTPError", "JSONDecodeError"}
    THEN Exc(resp.kind, resp.kind)
    ELSE NoErr

\* ---------------------------------------------------------- print lines
Line(prefix, chart, text) ==
    [prefix |-> prefix, chart |-> chart, text |-> text, msg |-> NoMsg]

\* The prints of one loop iteration of `search` for chart number i, up to
\* the first missing key.
SearchLines(c, i) ==
    IF c.missing = "name" THEN <<>>
    ELSE <<Line("\nName: ", i, "name")>> \o
    (IF c.missing = "repository" THEN <<>>
     ELSE <<Line("Repository: ", i, "repository.name")>> \o
     (IF c.missing = "description" THEN <<>>
      ELSE <<Line("Description: ", i, "description"),
             Line("Version: ", i, IF c.missing = "version" THEN "N/A" ELSE "version")>>))

\* The prints of `info`, up to the first missing key.
InfoLines(d) ==
    IF d.missing = "name" THEN <<>>
    ELSE <<Line("\nName: ", 0, "name")>> \o
    (IF d.missing = "description" THEN <<>>
     ELSE <<Line("Description: ", 0, "description"),
            Line("Version: ", 0, IF d.missing = "version" THEN "N/A" ELSE "version")>> \o
     (IF d.missing = "repository" THEN <<>>
      ELSE <<Line("Repository URL: ", 0, "repository.url")>>))

\* The key lookup that fails while printing, if any (.get never fails).
LookupError(d) ==
    IF d.missing \in {"none", "version"} THEN NoErr ELSE KeyError(d.missing)

\* print(f"Error: {str(e)}")
ErrorLine(e) == [prefix |-> "Error: ", chart |-> 0, text |-> "", msg |-> e.msg]

\* except Exception: every exception class the facade can raise derives
\* from Exception.
ExceptionTypes ==
    {"ConnectionError", "HTTPError", "JSONDecodeError", "ValueError",
     "KeyError", "FileNotFoundError", "Exception", "CalledProcessError"}
CaughtCommandErrorsOnly(e) == e.type \in {"Exception", "CalledProcessError"}
Caught(e) == e.type \in ExceptionTypes

\* ------------------------------------------------------ facade commands
GetRequest(path, repo, chart, params) ==
    [base |-> ARTIFACT_HUB_API, path |-> path, repo |-> repo, chart |-> chart,
     params |-> params]

NoParams == [kind |-> None, ts_query |-> None, sort |-> None]

\* `if x:` for an Optional[str]: None and the empty string are false.
truthy(x) == x # None /\ x # ""

\* `if version is not None:` in place of `if version:`
install_cmd_is_not_none(name, release_name, namespace, version) ==
    <<"helm", "install", release_name, name, "--namespace", namespace>>
    \o (IF version # None THEN <<"--version", version>> ELSE <<>>)

install_cmd(name, release_name, namespace, version) ==
    <<"helm", "install", release_name, name, "--namespace", namespace>>
    \o (IF truthy(version) THEN <<"--version", version>> ELSE <<>>)

\* `if namespace is not None:` in place of `if namespace:`
list_cmd_is_not_none(namespace) ==
    <<"helm", "list">> \o (IF namespace # None THEN <<"-n", namespace>> ELSE <<>>)

list_cmd(namespace) ==
    <<"helm", "list">>
    \o (IF truthy(namespace) THEN <<"-n", namespace>> ELSE <<>>)

\* the namespace flag placed before the release name
uninstall_cmd_flag_first(release_name, namespace) ==
    <<"helm", "uninstall", "-n", namespace, release_name>>

uninstall_cmd(release_name, namespace) ==
    <<"helm", "uninstall", release_name, "-n", namespace>>

repo_add_cmd(name, url) == <<"helm", "repo", "add", name, url>>
repo_update_cmd == <<"helm", "repo", "update">>

\* The if/elif chain of main: the facade operation a command selects.
Branch(command) ==
    CASE command = "search" -> "search_charts"
      [] command = "info" -> "get_chart_details"
      [] command = "install" -> "install_chart"
      [] command = "list-releases" -> "list_releases"
      [] command = "uninstall" -> "uninstall_release"
      [] OTHER -> "return"

Running == -1                         \* the process has not exited yet

VARIABLES
    entry,     \* "main" or "add_helm_repo": what this run executes
    argv,      \* the command line (or the arguments of the direct call)
    args,      \* argparse Namespace
    pc,        \* position in main / in the facade operation
    calls,     \* facade operations called so far, in order
    http,      \* GET requests issued through self.session, in order
    procs,     \* subprocess.run invocations, in order, each with its outcome
    ret,       \* value returned by the facade operation
    err,       \* exception raised in this run (NoErr when none)
    out,       \* lines written by print(), in order
    idx,       \* loop position in `for chart in charts[:5]`
    exit       \* process exit status (Running until it exits)

vars == <<entry, argv, args, pc, calls, http, procs, ret, err, out, idx, exit>>

Init ==
    /\ \/ entry = "main" /\ argv \in Argvs
       \/ entry = "add_helm_repo" /\ argv \in RepoCalls
    /\ args = [command |-> None]
    /\ pc = "start"
    /\ calls = <<>>
    /\ http = <<>>
    /\ procs = <<>>
    /\ ret = NoRet
    /\ err = NoErr
    /\ out = <<>>
    /\ idx = 0
    /\ exit = Running

\* ------------------------------------------------------------- main
\* main, lines 123-151: build the parser, parse, construct the manager.
ParseArgs ==
    /\ pc = "start" /\ entry = "main"
    /\ LET ns == parse_args(argv) IN
       IF ns.command = "usage"
       THEN /\ exit' = 2 /\ pc' = "done" /\ UNCHANGED args
       ELSE /\ args' = ns /\ pc' = "dispatch" /\ UNCHANGED exit
    /\ UNCHANGED <<entry, argv, calls, http, procs, ret, err, out, idx>>

\* main, lines 153-177: enter the branch of args.command and call its
\* facade operation; with no sub-command no branch is taken.
Dispatch ==
    /\ pc = "dispatch"
    /\ LET op == Branch(args.command) IN
       /\ pc' = op
       /\ calls' = IF op = "return" THEN calls ELSE Append(calls, op)
    /\ UNCHANGED <<entry, argv, args, http, procs, ret, err, out, idx, exit>>

\* search_charts, lines 25-35.
SearchCharts ==
    /\ pc = "search_charts"
    /\ \E resp \in SearchResponses :
         /\ http' = Append(http, GetRequest("packages/search", <<>>, <<>>,
                             [kind |-> "0", ts_query |-> args.keyword,
                              sort |-> "relevance"]))
         /\ IF ResponseError(resp) # NoErr
            THEN /\ err' = ResponseError(resp) /\ pc' = "except"
                 /\ UNCHANGED ret
            ELSE /\ ret' = [type |-> "list", val |-> resp.packages]
                 /\ pc' = "search_loop"
                 /\ UNCHANGED err
    /\ idx' = 0
    /\ UNCHANGED <<entry, argv, args, calls, procs, out, exit>>

\* main, lines 156-160: one iteration of the loop over charts[:5], or its end.
SearchLoop ==
    /\ pc = "search_loop"
    /\ LET shown == Take(ret.val, TOP_RESULTS) IN
       IF idx < Len(shown)
       THEN LET c == shown[idx + 1] IN
            /\ out' = out \o SearchLines(c, idx + 1)
            /\ IF LookupError(c) # NoErr
               THEN /\ err' = LookupError(c) /\ pc' = "except" /\ UNCHANGED idx
               ELSE /\ idx' = idx + 1 /\ UNCHANGED <<err, pc>>
       ELSE /\ pc' = "return" /\ UNCHANGED <<out, err, idx>>
    /\ UNCHANGED <<entry, argv, args, calls, http, procs, ret, exit>>

\* get_chart_details, lines 48-54.
GetChartDetails ==
    /\ pc = "get_chart_details"
    /\ LET parts == split(args.ref, SEP) IN
       IF Len(parts) # 2
       THEN /\ err' = Exc("ValueError", "unpack") /\ pc' = "except"
            /\ UNCHANGED <<http, ret>>
       ELSE \E resp \in DetailResponses :
              /\ http' = Append(http, GetRequest("packages/helm", parts[1],
                                                 parts[2], NoParams))
              /\ IF ResponseError(resp) # NoErr
                 THEN /\ err' = ResponseError(resp) /\ pc' = "except"
                      /\ UNCHANGED ret
                 ELSE /\ ret' = [type |-> "dict", val |-> resp.json]
                      /\ pc' = "info_show"
                      /\ UNCHANGED err
    /\ UNCHANGED <<entry, argv, args, calls, procs, out, idx, exit>>

\* main, lines 164-167.
InfoShow ==
    /\ pc = "info_show"
    /\ out' = out \o InfoLines(ret.val)
    /\ IF LookupError(ret.val) # NoErr
       THEN err' = LookupError(ret.val) /\ pc' = "except"
       ELSE pc' = "return" /\ UNCHANGED err
    /\ UNCHANGED <<entry, argv, args, calls, http, procs, ret, idx, exit>>

\* install_chart, lines 80-87.
InstallChart ==
    /\ pc = "install_chart"
    /\ \E o \in Outcomes :
         LET cmd == install_cmd(args.name, args.release_name, args.namespace,
                                args.version)
             r == run(cmd, o, FALSE) IN
         /\ procs' = Append(procs, [cmd |-> cmd, outcome |-> o])
         /\ IF r.exc # NoErr
            THEN err' = Reraise("Failed to install chart: ", r.exc) /\ pc' = "except"
            ELSE pc' = "install_show" /\ UNCHANGED err
    /\ UNCHANGED <<entry, argv, args, calls, http, ret, out, idx, exit>>

\* main, line 171.
InstallShow ==
    /\ pc = "install_show"
    /\ out' = Append(out, Line("Successfully installed ", 0, args.release_name))
    /\ pc' = "return"
    /\ UNCHANGED <<entry, argv, args, calls, http, procs, ret, err, idx, exit>>

\* list_releases, lines 99-107.
ListReleases ==
    /\ pc = "list_releases"
    /\ \E o \in Outcomes :
         LET cmd == list_cmd(args.namespace)
             r == run(cmd, o, TRUE) IN
         /\ procs' = Append(procs, [cmd |-> cmd, outcome |-> o])
         /\ IF r.exc # NoErr
            THEN /\ err' = Reraise("Failed to list releases: ", r.exc)
                 /\ pc' = "except" /\ UNCHANGED ret
            ELSE /\ ret' = [type |-> "str", val |-> r.stdout]
                 /\ pc' = "list_show" /\ UNCHANGED err
    /\ UNCHANGED <<entry, argv, args, calls, http, out, idx, exit>>

\* main, line 174.
ListShow ==
    /\ pc = "list_show"
    /\ out' = Append(out, Line("", 0, ret.val))
    /\ pc' = "return"
    /\ UNCHANGED <<entry, argv, args, calls, http, procs, ret, err, idx, exit>>

\* uninstall_release, lines 117-120.
UninstallRelease ==
    /\ pc = "uninstall_release"
    /\ \E o \in Outcomes :
         LET cmd == uninstall_cmd(args.release_name, args.namespace)
             r == run(cmd, o, FALSE) IN
         /\ procs' = Append(procs, [cmd |-> cmd, outcome |-> o])
         /\ IF r.exc # NoErr
            THEN err' = Reraise("Failed to uninstall release: ", r.exc) /\ pc' = "except"
            ELSE pc' = "uninstall_show" /\ UNCHANGED err
    /\ UNCHANGED <<entry, argv, args, calls, http, ret, out, idx, exit>>

\* main, line 178.
UninstallShow ==
    /\ pc = "uninstall_show"
    /\ out' = Append(out, Line("Successfully uninstalled ", 0, args.release_name))
    /\ pc' = "return"
    /\ UNCHANGED <<entry, argv, args, calls, http, procs, ret, err, idx, exit>>

\* main, lines 180-181: the handler prints the error and swallows it; an
\* exception it does not catch would end the process with a traceback.
\* err keeps the handled exception (the handler's `e`).
Except ==
    /\ pc = "except"
    /\ IF Caught(err)
       THEN /\ out' = Append(out, ErrorLine(err))
            /\ pc' = "return"
            /\ UNCHANGED exit
       ELSE /\ exit' = 1
            /\ pc' = "done"
            /\ UNCHANGED out
    /\ UNCHANGED <<entry, argv, args, calls, http, procs, ret, err, idx>>

\* main returns and the interpreter exits with status 0.
Return ==
    /\ pc = "return"
    /\ exit' = 0
    /\ pc' = "done"
    /\ UNCHANGED <<entry, argv, args, calls, http, procs, ret, err, out, idx>>

\* ------------------------------------------- add_helm_repo, called directly
CallAddHelmRepo ==
    /\ pc = "start" /\ entry = "add_helm_repo"
    /\ args' = argv
    /\ calls' = Append(calls, "add_helm_repo")
    /\ pc' = "repo_add"
    /\ UNCHANGED <<entry, argv, http, procs, ret, err, out, idx, exit>>

\* line 65 without check=True: the update follows whatever the add returned.
RepoAddUnchecked ==
    /\ pc = "repo_add"
    /\ \E o \in Outcomes :
         LET cmd == repo_add_cmd(args.name, args.url)
             r == runUnchecked(cmd, o, FALSE) IN
         /\ procs' = Append(procs, [cmd |-> cmd, outcome |-> o])
         /\ IF r.exc # NoErr
            THEN err' = Reraise("Failed to add Helm repository: ", r.exc) /\ pc' = "raised"
            ELSE pc' = "repo_update" /\ UNCHANGED err
    /\ UNCHANGED <<entry, argv, args, calls, http, ret, out, idx, exit>>

\* add_helm_repo, line 65 (and its handler, lines 67-68).
RepoAdd ==
    /\ pc = "repo_add"
    /\ \E o \in Outcomes :
         LET cmd == repo_add_cmd(args.name, args.url)
             r == run(cmd, o, FALSE) IN
         /\ procs' = Append(procs, [cmd |-> cmd, outcome |-> o])
         /\ IF r.exc # NoErr
            THEN err' = Reraise("Failed to add Helm repository: ", r.exc) /\ pc' = "raised"
            ELSE pc' = "repo_update" /\ UNCHANGED err
    /\ UNCHANGED <<entry, argv, args, calls, http, ret, out, idx, exit>>

\* add_helm_repo, line 66 (and its handler, lines 67-68).
RepoUpdate ==
    /\ pc = "repo_update"
    /\ \E o \in Outcomes :
         LET cmd == repo_update_cmd
             r == run(cmd, o, FALSE) IN
         /\ procs' = Append(procs, [cmd |-> cmd, outcome |-> o])
         /\ IF r.exc # NoErr
            THEN err' = Reraise("Failed to add Helm repository: ", r.exc) /\ pc' = "raised"
            ELSE pc' = "returned" /\ UNCHANGED err
    /\ UNCHANGED <<entry, argv, args, calls, http, ret, out, idx, exit>>

Next ==
    \/ ParseArgs
    \/ Dispatch
    \/ SearchCharts
    \/ SearchLoop
    \/ GetChartDetails
    \/ InfoShow
    \/ InstallChart
    \/ InstallShow
    \/ ListReleases
    \/ ListShow
    \/ UninstallRelease
    \/ UninstallShow
    \/ Except
    \/ Return
    \/ CallAddHelmRepo
    \/ RepoAdd
    \/ RepoUpdate

Spec == Init /\ [][Next]_vars

TypeOK ==
    /\ entry \in {"main", "add_helm_repo"}
    /\ exit \in {Running, 0, 1, 2}
    /\ idx \in 0..TOP_RESULTS
    /\ Len(http) <= 1
    /\ Len(procs) <= 2

\* ------------------------------------------------------------ properties
Succeeded(p) == p.outcome.launched /\ p.outcome.returncode = 0
ExitedNonZero(p) == p.outcome.launched /\ p.outcome.returncode # 0
Count(seq, P(_)) == Cardinality({i \in DOMAIN seq : P(seq[i])})
IsErrorLine(l) == l.prefix = "Error: "
IsSuccessLine(l) == l.prefix \in {"Successfully installed ", "Successfully uninstalled "}
IsNameLine(l) == l.prefix = "\nName: "
IsRepoUpdate(p) == p.cmd = <<"helm", "repo", "update">>
Min(a, b) == IF a < b THEN a ELSE b
Abs(n) == IF n < 0 THEN -n ELSE n
SepCount(s) == Cardinality({i \in DOMAIN s : s[i] = SEP})
SepAt(s) == CHOOSE i \in DOMAIN s : s[i] = SEP

\* C1: add_helm_repo invokes 'helm repo add name url' first and 'helm repo
\* update' second; the update is invoked only after an add that succeeded,
\* and when the operation has ended the number of update invocations is 1
\* if the add succeeded and 0 if it failed.
C1_AddThenUpdateFailFast ==
    entry = "add_helm_repo" =>
      /\ Len(procs) >= 1 =>
           procs[1].cmd = <<"helm", "repo", "add", argv.name, argv.url>>
      /\ \A i \in DOMAIN procs :
           IsRepoUpdate(procs[i]) => i = 2 /\ Succeeded(procs[1])
      /\ pc \in {"raised", "returned"} =>
           /\ Len(procs) >= 1
           /\ Count(procs, IsRepoUpdate) = IF Succeeded(procs[1]) THEN 1 ELSE 0

C1_Witness ==
    /\ entry = "add_helm_repo" /\ pc = "raised"
    /\ Len(procs) = 1 /\ ExitedNonZero(procs[1])
    /\ err.type = "Exception"

\* C2: get_chart_details needs exactly one '/' in name: with none, or with
\* two or more, it fails with no GET issued; with exactly one, the single
\* GET goes to packages/helm/{part before}/{part after}.
C2_ExactlyOneSeparator ==
    (entry = "main" /\ calls = <<"get_chart_details">> /\ pc # "get_chart_details") =>
      IF SepCount(argv.ref) = 1
      THEN /\ Len(http) = 1
           /\ http[1].base = ARTIFACT_HUB_API
           /\ http[1].path = "packages/helm"
           /\ http[1].repo = SubSeq(argv.ref, 1, SepAt(argv.ref) - 1)
           /\ http[1].chart = SubSeq(argv.ref, SepAt(argv.ref) + 1, Len(argv.ref))
      ELSE /\ http = <<>>
           /\ err.type = "ValueError"
           /\ ret = NoRet

C2_Witness ==
    /\ calls = <<"get_chart_details">> /\ pc = "done"
    /\ SepCount(argv.ref) = 2
    /\ http = <<>> /\ err.type = "ValueError"

\* C3: an error raised during command dispatch is caught by main's handler:
\* the run ends with exit status 0, having printed exactly one 'Error: '
\* line (its last line, carrying the text of the error).
C3_ErrorsCaughtAndSwallowed ==
    (entry = "main" /\ pc = "done" /\ err # NoErr) =>
      /\ exit = 0
      /\ Count(out, IsErrorLine) = 1
      /\ out[Len(out)] = ErrorLine(err)

C3_Witness ==
    /\ entry = "main" /\ pc = "done" /\ exit = 0
    /\ err.type = "KeyError"
    /\ Len(out) > 1 /\ IsErrorLine(out[Len(out)])

\* The exception the last helm invocation led to, when it exited non-zero.
CommandFailed ==
    /\ procs # <<>> /\ ExitedNonZero(procs[Len(procs)])
    /\ err # NoErr

C5_VersionFlagWhenSupplied ==
    (calls = <<"install_chart">> /\ pc # "install_chart") =>
      /\ Len(procs) = 1
      /\ procs[1].cmd =
           <<"helm", "install", args.release_name, args.name, "--namespace", args.namespace>>
           \o (IF args.version = None THEN <<>> ELSE <<"--version", args.version>>)

\* C5 (amended): install_chart invokes one command,
\* [helm, install, release_name, name, --namespace, namespace], with no
\* '--version' element when the version is None or the empty string, and
\* followed by [--version, version] when the version is a non-empty string.
C5_VersionFlagWhenNonEmpty ==
    (calls = <<"install_chart">> /\ pc # "install_chart") =>
      /\ Len(procs) = 1
      /\ LET cmd == procs[1].cmd
             prefix == <<"helm", "install", args.release_name, args.name,
                         "--namespace", args.namespace>> IN
         IF args.version \in {None, ""}
         THEN cmd = prefix /\ \A i \in DOMAIN cmd : cmd[i] # "--version"
         ELSE cmd = prefix \o <<"--version", args.version>>

C5_Witness ==
    /\ calls = <<"install_chart">> /\ pc = "done"
    /\ argv.version = "" /\ args.version = ""
    /\ Len(procs[1].cmd) = 6

\* Charts whose display was begun, in the order printed.
Displayed == SelectSeq(out, IsNameLine)

\* C6: `search` issues exactly one GET, to the search endpoint with kind=0,
\* ts_query=keyword, sort=relevance, and displays at most 5 results: the
\* first ones of the response, in its order, all of the first 5 when no
\* error stops the display.
C6_OneGetAtMostFiveShown ==
    (entry = "main" /\ calls = <<"search_charts">> /\ pc # "search_charts") =>
      /\ http = <<GetRequest("packages/search", <<>>, <<>>,
                    [kind |-> "0", ts_query |-> argv.keyword, sort |-> "relevance"])>>
      /\ Len(Displayed) <= 5
      /\ ret # NoRet => Len(Displayed) <= Len(ret.val)
      /\ \A j \in DOMAIN Displayed : Displayed[j].chart = j
      /\ (pc = "done" /\ err = NoErr) =>
           /\ Len(Displayed) = Min(5, Len(ret.val))
           /\ Len(out) = 4 * Len(Displayed)

C6_Witness ==
    /\ calls = <<"search_charts">> /\ pc = "done" /\ err = NoErr
    /\ Len(ret.val) = 6
    /\ Len(Displayed) = 5

\* C7: every CLI run that passes argument parsing calls exactly one of the
\* five facade operations, exactly once, before the process ends.
C7_ExactlyOneOperationPerRun ==
    (entry = "main" /\ pc = "done" /\ exit # 2) =>
      /\ Len(calls) = 1
      /\ calls[1] \in {"search_charts", "get_chart_details", "install_chart",
                       "list_releases", "uninstall_release"}

\* C8 (as stated): list_releases invokes one command, [helm, list] when the
\* namespace is None and [helm, list, -n, namespace] when one is given, and
\* on exit status 0 returns the captured stdout unchanged.
C8_NamespaceFlagWhenGiven ==
    (calls = <<"list_releases">> /\ pc # "list_releases") =>
      /\ Len(procs) = 1
      /\ procs[1].cmd = <<"helm", "list">>
           \o (IF args.namespace = None THEN <<>> ELSE <<"-n", args.namespace>>)
      /\ Succeeded(procs[1]) =>
           ret = [type |-> "str", val |-> procs[1].outcome.stdout]

\* C8 (amended): list_releases invokes one command, [helm, list] with no
\* '-n' element when the namespace is None or the empty string and
\* [helm, list, -n, namespace] when it is a non-empty string, and on exit
\* status 0 returns the captured stdout unchanged.
C8_NamespaceFlagWhenNonEmpty ==
    (calls = <<"list_releases">> /\ pc # "list_releases") =>
      /\ Len(procs) = 1
      /\ LET cmd == procs[1].cmd IN
         IF args.namespace \in {None, ""}
         THEN cmd = <<"helm", "list">> /\ \A i \in DOMAIN cmd : cmd[i] # "-n"
         ELSE cmd = <<"helm", "list", "-n", args.namespace>>
      /\ Succeeded(procs[1]) =>
           ret = [type |-> "str", val |-> procs[1].outcome.stdout]

C8_Witness ==
    /\ calls = <<"list_releases">> /\ pc = "done"
    /\ args.namespace = ""
    /\ procs[1].cmd = <<"helm", "list">>
    /\ Succeeded(procs[1]) /\ ret.val = "NAME r1"

\* C9: uninstall_release invokes one command whose arguments after the
\* binary name are [uninstall, release_name, -n, namespace], the namespace
\* being 'default' when none was given.
C9_UninstallArguments ==
    (entry = "main" /\ calls = <<"uninstall_release">> /\ pc # "uninstall_release") =>
      /\ Len(procs) = 1
      /\ Head(procs[1].cmd) = "helm"
      /\ Tail(procs[1].cmd) =
           <<"uninstall", argv.release_name, "-n",
             IF argv.namespace = NotGiven THEN "default" ELSE argv.namespace>>

C9_Witness ==
    /\ calls = <<"uninstall_release">> /\ pc = "done"
    /\ argv.release_name = "r1" /\ argv.namespace = NotGiven
    /\ Tail(procs[1].cmd) = <<"uninstall", "r1", "-n", "default">>

\* C10: in `install` and `uninstall` the success line is printed only after
\* the helm invocation returned status 0; when it exits non-zero the run
\* prints an 'Error: ' line and no success line; no run prints both.
C10_SuccessLineOnlyAfterStatusZero ==
    (entry = "main" /\ args.command \in {"install", "uninstall"}) =>
      /\ Count(out, IsSuccessLine) > 0 => (Len(procs) = 1 /\ Succeeded(procs[1]))
      /\ ~(Count(out, IsSuccessLine) > 0 /\ Count(out, IsErrorLine) > 0)
      /\ (pc = "done" /\ procs # <<>> /\ ExitedNonZero(procs[1])) =>
           /\ Count(out, IsSuccessLine) = 0
           /\ Count(out, IsErrorLine) = 1

C10_Witness ==
    /\ args.command = "uninstall" /\ pc = "done"
    /\ ExitedNonZero(procs[1])
    /\ Len(out) = 1 /\ IsErrorLine(out[1])

====
